---- MODULE Spec2Model ----
(***************************************************************************)
(* Model of the heat-pump sensor service: the per-connection SensorHandler *)
(* (sensor-handler.js), the process-wide sensor registry `sensors` and the *)
(* actuator back-channel (server.js), on Node's single-threaded event      *)
(* loop.  Every callback runs to completion, so one action is one callback.*)
(*                                                                         *)
(* Timers.  A timer is a pending callback.  The poll and retry timers have *)
(* a jittered delay around config.frequency and may fire at any time.  The *)
(* corruption and death timers of one _scheduleDeath call share `secs`, so *)
(* they carry their remaining delay, counted in units of TimeUnit ms, and  *)
(* Tick lets time pass only while no such timer is due.                    *)
(***************************************************************************)
EXTENDS Integers, Sequences, FiniteSets, Bags, TLC

VARIABLES
  config,             \* #config: failures, timeToLive (same object for every handler)
  proc,               \* the hosting process: "running", "exited", "crashed"
  sensors,            \* server.js: export var sensors
  old_sensors_list,   \* sensor-handler.js: module-level var old_sensors_list
  timeout,            \* #timeout of each handler
  pollTimers,         \* pending poll callbacks of each handler
  death,              \* remaining delay of the timer #death refers to, or NoTimer
  deathLeaked,        \* remaining delays of pending death timers no field refers to
  corruption,         \* remaining delays of pending corruption timers
  retry,              \* pending retry callbacks of _send: a bag of messages
  buffer,             \* #buffer
  started,            \* start() has run
  stopped,            \* stop() has run
  written,            \* what the last callback passed to ws.send, in order
  last,               \* the last callback: which one, of which handler, with which message
  zeroDelay,          \* the pending poll timer was armed with delay 0 (by _onSubscribe)
  corrupted,          \* a corruption callback of the handler has set a state to ERROR
  dead,               \* the handler whose death callback ended the process, or 0
  tickSnap,           \* <<the registry at the handler's previous poll callback>>, or <<>>
  held                \* <<at: the registry at the poll whose sensors_list a retry timer of
                      \*   the handler holds, passed: a later sensors_list was written>>, or <<>>

vars == <<config, proc, sensors, old_sensors_list, timeout, pollTimers, death,
          deathLeaked, corruption, retry, buffer, started, stopped, written, last,
          zeroDelay, corrupted, dead, tickSnap, held>>

----------------------------------------------------------------------------
(* Bounds of the model *)
MaxLen == 2         \* longest registry and longest inbound list
MaxTTL == 1         \* largest config.timeToLive
MaxRetry == 1       \* most pending retry callbacks of one handler

(* Program constants *)
ON == 1
OFF == 0
ERROR == -1
BaseSecs == 5
CorruptionMs == 5000
DeathMs == 15000
TimeUnit == 5000

Handlers == {1, 2}
Names == {"heatpump1"}
States == {ON, OFF, ERROR}
NoTimer == -1
None == "none"

Records == [type : {"heatpump"}, name : Names, state : States, temperature : {25}]

SeqsUpTo(S, n) == UNION {[1..k -> S] : k \in 0..n}

Lists == SeqsUpTo(Records, MaxLen)

(* server.js: the registry the module starts with *)
InitialSensors ==
  <<[type |-> "heatpump", name |-> "heatpump1", state |-> OFF, temperature |-> 25]>>

Configs == [failures : BOOLEAN, timeToLive : 0..MaxTTL]

----------------------------------------------------------------------------
(* JSON.stringify of a sensor list: the fields of each record in key order. *)
StringifyRecord(r) == <<r.type, r.name, r.state, r.temperature>>

Stringify(list) == [i \in 1..Len(list) |-> StringifyRecord(list[i])]

ParseRecord(t) == [type |-> t[1], name |-> t[2], state |-> t[3], temperature |-> t[4]]

Parse(text) == [i \in 1..Len(text) |-> ParseRecord(text[i])]

(* Outbound messages *)
Ack == [kind |-> "ack"]

ErrorMsg(text) == [kind |-> "error", text |-> text]

(* {type: 'sensors_list', list: sensors}: the message holds the array itself *)
ListMsgLive == [kind |-> "sensors_list", ref |-> "live"]

ListMsgCopy(list) == [kind |-> "sensors_list", ref |-> "copy", list |-> list]

(* JSON.stringify(msg) at the time of ws.send *)
Wire(msg) ==
  IF msg.kind = "sensors_list"
    THEN [kind |-> "sensors_list",
          list |-> Stringify(IF msg.ref = "live" THEN sensors ELSE msg.list)]
    ELSE msg

(* A new array replaces `sensors`: messages holding the old array keep it. *)
Detach(msg) == IF msg = ListMsgLive THEN ListMsgCopy(sensors) ELSE msg

DetachBag(b) ==
  LET ms == BagToSet(b)
      Count(m) == IF m = ListMsgLive THEN 0 ELSE CopiesIn(m, b)
      Moved(m) == IF m = ListMsgCopy(sensors) THEN CopiesIn(ListMsgLive, b) ELSE 0
      dom == {Detach(m) : m \in ms}
  IN  [m \in dom |-> Count(m) + Moved(m)]

(* Inbound messages: a text that is empty, one JSON.parse rejects, or the
   object JSON.parse gives, whose list is absent, null or an array *)
MsgTypes == {"subscribe", "unsubscribe", "publish"}

MsgTargets == {"heatpump", "thermostat"}

RawMsgs == {[kind |-> "empty"], [kind |-> "unparsable"]}

(* The lists the model's clients send: none, one record, two different records *)
InboundLists ==
  {<<>>,
   <<[type |-> "heatpump", name |-> "heatpump1", state |-> ON, temperature |-> 25]>>,
   <<[type |-> "heatpump", name |-> "heatpump1", state |-> ON, temperature |-> 25],
     [type |-> "heatpump", name |-> "heatpump1", state |-> ERROR, temperature |-> 25]>>}

MsgLists ==
  {[list |-> "absent", items |-> <<>>], [list |-> "null", items |-> <<>>]}
  \cup {[list |-> "array", items |-> l] : l \in InboundLists}

Json(ty, tg, l) ==
  [kind |-> "json", type |-> ty, target |-> tg, list |-> l.list, items |-> l.items]

JsonMsgs == {Json(ty, tg, l) : ty \in MsgTypes, tg \in MsgTargets, l \in MsgLists}

Inbound == RawMsgs \cup JsonMsgs

NoMsg == [kind |-> "none"]

Ran(op, h, m) == [op |-> op, h |-> h, m |-> m]

----------------------------------------------------------------------------
Init ==
  /\ config \in Configs
  /\ proc = "running"
  /\ sensors = InitialSensors
  /\ old_sensors_list = <<>>
  /\ timeout = [h \in Handlers |-> "undefined"]
  /\ pollTimers = [h \in Handlers |-> 0]
  /\ death = [h \in Handlers |-> NoTimer]
  /\ deathLeaked = [h \in Handlers |-> {}]
  /\ corruption = [h \in Handlers |-> {}]
  /\ retry = [h \in Handlers |-> EmptyBag]
  /\ buffer = [h \in Handlers |-> <<>>]
  /\ started = [h \in Handlers |-> FALSE]
  /\ stopped = [h \in Handlers |-> FALSE]
  /\ written = <<>>
  /\ last = Ran("init", 0, NoMsg)
  /\ zeroDelay = [h \in Handlers |-> FALSE]
  /\ corrupted = [h \in Handlers |-> FALSE]
  /\ dead = 0
  /\ tickSnap = [h \in Handlers |-> <<>>]
  /\ held = [h \in Handlers |-> <<>>]

----------------------------------------------------------------------------
(* Truthiness of #timeout: undefined and 0 are falsy, a Timeout object is not. *)
Truthy(t) == t \in {"live", "stale"}

Subscribed(h) == Truthy(timeout[h])

Idle(h) == ~Truthy(timeout[h])

(* clearTimeout(this.#timeout): cancels the timer the field refers to, if pending *)
ClearedPoll(h) == IF timeout[h] = "live" THEN pollTimers[h] - 1 ELSE pollTimers[h]

(* _send as it would be if the draw alone decided, whatever config.failures *)
DeferredWhateverConfig(fail) == fail

(* _send: with failures on and an unlucky draw the send is put off to a retry
   timer; otherwise the message is serialised and written to the socket. *)
Deferred(fail) == config.failures /\ fail

(* _send as it would be if a send put off armed no retry timer *)
SendForgetsDeferred(h, msg, fail, pending) ==
  IF Deferred(fail)
    THEN /\ retry' = [retry EXCEPT ![h] = pending]
         /\ written' = <<>>
    ELSE /\ retry' = [retry EXCEPT ![h] = pending]
         /\ written' = <<[h |-> h, msg |-> Wire(msg)]>>

Send(h, msg, fail, pending) ==
  IF Deferred(fail)
    THEN /\ retry' = [retry EXCEPT ![h] = pending (+) SetToBag({msg})]
         /\ written' = <<>>
    ELSE /\ retry' = [retry EXCEPT ![h] = pending]
         /\ written' = <<[h |-> h, msg |-> Wire(msg)]>>

(* The draws Math.random() < errorProb may give an action: the model lets a
   draw fail only while there is room for one more retry timer. *)
Draws(h, pending) == {f \in BOOLEAN : f => BagCardinality(pending) < MaxRetry}

(* _validateMessage: the error it throws (or that JSON.parse or forEach throws
   inside it), None when it returns the parsed message. *)
ValidationError(m) ==
  IF m.kind = "empty" THEN "Invalid inbound message"
  ELSE IF m.kind = "unparsable" THEN "Unexpected end of JSON input"
  ELSE IF m.type # "subscribe" /\ m.type # "unsubscribe" THEN "Invalid message type"
  ELSE IF m.target # "heatpump" THEN "Invalid subscription target"
  ELSE IF m.list = "absent" THEN "Cannot read properties of undefined (reading 'forEach')"
  ELSE None

(* _validateMessage as it would be if the list were taken before the type
   and the target are checked *)
ValidatedSensorsBeforeChecks(m) ==
  IF m.kind # "json" THEN sensors
  ELSE IF m.list = "null" THEN sensors
  ELSE IF m.list = "absent" THEN <<>>
  ELSE <<>> \o m.items

(* _validateMessage as it would be without the splice: the list is appended *)
ValidatedSensorsAppended(m) ==
  IF m.kind # "json" THEN sensors
  ELSE IF m.type # "subscribe" /\ m.type # "unsubscribe" THEN sensors
  ELSE IF m.target # "heatpump" THEN sensors
  ELSE IF m.list = "null" THEN sensors
  ELSE IF m.list = "absent" THEN sensors
  ELSE sensors \o m.items

(* _validateMessage: the registry it leaves.  json.list !== null is true of an
   absent list too (undefined): the registry is emptied before forEach throws. *)
ValidatedSensors(m) ==
  IF m.kind # "json" THEN sensors
  ELSE IF m.type # "subscribe" /\ m.type # "unsubscribe" THEN sensors
  ELSE IF m.target # "heatpump" THEN sensors
  ELSE IF m.list = "null" THEN sensors
  ELSE IF m.list = "absent" THEN <<>>
  ELSE <<>> \o m.items

(* _onSubscribe as it would be without the test of #timeout *)
OnSubscribeUnguarded(h) ==
  /\ timeout' = [timeout EXCEPT ![h] = "live"]
  /\ pollTimers' = [pollTimers EXCEPT ![h] = @ + 1]
  /\ zeroDelay' = [zeroDelay EXCEPT ![h] = TRUE]
  /\ written' = <<>>
  /\ UNCHANGED retry

(* _onSubscribe: nothing if #timeout is set; else the poll callback is
   scheduled with delay 0 *)
OnSubscribe(h) ==
  IF Truthy(timeout[h])
    THEN UNCHANGED <<timeout, pollTimers, zeroDelay, retry>> /\ written' = <<>>
    ELSE /\ timeout' = [timeout EXCEPT ![h] = "live"]
         /\ pollTimers' = [pollTimers EXCEPT ![h] = @ + 1]
         /\ zeroDelay' = [zeroDelay EXCEPT ![h] = TRUE]
         /\ written' = <<>>
         /\ UNCHANGED retry

(* _onUnsubscribe as it would be without clearTimeout *)
OnUnsubscribeNoClear(h, fail) ==
  IF ~Truthy(timeout[h])
    THEN UNCHANGED <<timeout, pollTimers, zeroDelay, retry>> /\ written' = <<>>
    ELSE /\ timeout' = [timeout EXCEPT ![h] = "zero"]
         /\ Send(h, Ack, fail, retry[h])
         /\ UNCHANGED <<pollTimers, zeroDelay>>

(* _onUnsubscribe as it would be without the test of #timeout *)
OnUnsubscribeAlwaysAcks(h, fail) ==
  /\ pollTimers' = [pollTimers EXCEPT ![h] = ClearedPoll(h)]
  /\ timeout' = [timeout EXCEPT ![h] = "zero"]
  /\ zeroDelay' = [zeroDelay EXCEPT ![h] = FALSE]
  /\ Send(h, Ack, fail, retry[h])

(* _onUnsubscribe: nothing if #timeout is not set; else the timer is cleared,
   #timeout becomes 0 and the ack goes through _send *)
OnUnsubscribe(h, fail) ==
  IF ~Truthy(timeout[h])
    THEN UNCHANGED <<timeout, pollTimers, zeroDelay, retry>> /\ written' = <<>>
    ELSE /\ pollTimers' = [pollTimers EXCEPT ![h] = ClearedPoll(h)]
         /\ timeout' = [timeout EXCEPT ![h] = "zero"]
         /\ zeroDelay' = [zeroDelay EXCEPT ![h] = FALSE]
         /\ Send(h, Ack, fail, retry[h])

Dispatch(h, m, fail) ==
  IF ValidationError(m) # None
    THEN /\ Send(h, ErrorMsg(ValidationError(m)), fail, retry[h])
         /\ UNCHANGED <<timeout, pollTimers, zeroDelay>>
    ELSE IF m.type = "subscribe" THEN OnSubscribe(h) ELSE OnUnsubscribe(h, fail)

(* onMessage(msg), delivered while the connection is open *)
OnMessage(h, m, fail) ==
  /\ proc = "running"
  /\ last' = Ran("message", h, m)
  /\ ~stopped[h]
  /\ sensors' = ValidatedSensors(m)
  /\ Dispatch(h, m, fail)
  /\ UNCHANGED <<config, proc, old_sensors_list, death, deathLeaked, corruption,
                 buffer, started, stopped, corrupted, dead>>

(* _sendList: the message is appended to #buffer, every buffered message goes
   through _send in order (one draw each), and the buffer is emptied. *)
RECURSIVE Flushed(_, _, _)
Flushed(h, queue, fails) ==
  IF queue = <<>> THEN [deferred |-> EmptyBag, out |-> <<>>]
  ELSE LET rest == Flushed(h, Tail(queue), Tail(fails))
       IN  IF Deferred(Head(fails))
             THEN [rest EXCEPT !.deferred = SetToBag({Head(queue)}) (+) @]
             ELSE [rest EXCEPT !.out = <<[h |-> h, msg |-> Wire(Head(queue))]>> \o @]

SendList(h, fails) ==
  LET queue == Append(buffer[h], ListMsgLive)
      res == Flushed(h, queue, fails)
  IN  /\ retry' = [retry EXCEPT ![h] = @ (+) res.deferred]
      /\ written' = res.out
      /\ buffer' = [buffer EXCEPT ![h] = <<>>]

DrawSeqs(h, n) ==
  {fs \in [1..n -> BOOLEAN] :
     BagCardinality(retry[h]) + Cardinality({i \in 1..n : fs[i]}) <= MaxRetry}

(* The poll callback of _onSubscribe *)
PollTick(h, fails) ==
  /\ proc = "running"
  /\ last' = Ran("poll", h, NoMsg)
  /\ pollTimers[h] > 0
  /\ IF Stringify(old_sensors_list) # Stringify(sensors)
       THEN /\ old_sensors_list' = Parse(Stringify(sensors))
            /\ SendList(h, fails)
       ELSE /\ written' = <<>>
            /\ UNCHANGED <<old_sensors_list, retry, buffer>>
  /\ timeout' = [timeout EXCEPT ![h] = "live"]
  /\ pollTimers' = [pollTimers EXCEPT ![h] = (@ - 1) + 1]
  /\ zeroDelay' = [zeroDelay EXCEPT ![h] = FALSE]
  /\ UNCHANGED <<config, proc, sensors, death, deathLeaked, corruption, started,
                 stopped, corrupted, dead>>

(* The retry callback of _send *)
Retry(h, msg, fail) ==
  /\ proc = "running"
  /\ last' = Ran("retry", h, NoMsg)
  /\ BagIn(msg, retry[h])
  /\ Send(h, msg, fail, retry[h] (-) SetToBag({msg}))
  /\ UNCHANGED <<config, proc, sensors, old_sensors_list, timeout, pollTimers, zeroDelay, death,
                 deathLeaked, corruption, buffer, started, stopped, corrupted, dead>>

(* start(): fault simulation only with failures on and a positive time to live *)
Secs == BaseSecs .. (BaseSecs + config.timeToLive)

(* _scheduleDeath as it would be with the two delays exchanged *)
ScheduleDeathDelaysSwapped(h, secs, pendingCorruption) ==
  /\ corruption' = [corruption EXCEPT
                      ![h] = pendingCorruption \cup {(secs * DeathMs) \div TimeUnit}]
  /\ deathLeaked' = [deathLeaked EXCEPT
                      ![h] = @ \cup (IF death[h] = NoTimer THEN {} ELSE {death[h]})]
  /\ death' = [death EXCEPT ![h] = (secs * CorruptionMs) \div TimeUnit]

(* _scheduleDeath: a corruption timer after secs * 5000 ms and a death timer
   after secs * 15000 ms; #death is overwritten, so the timer it referred to
   stays pending with no field referring to it. *)
ScheduleDeath(h, secs, pendingCorruption) ==
  /\ corruption' = [corruption EXCEPT
                      ![h] = pendingCorruption \cup {(secs * CorruptionMs) \div TimeUnit}]
  /\ deathLeaked' = [deathLeaked EXCEPT
                      ![h] = @ \cup (IF death[h] = NoTimer THEN {} ELSE {death[h]})]
  /\ death' = [death EXCEPT ![h] = (secs * DeathMs) \div TimeUnit]

(* start() as it would be without the test of the configuration *)
StartUngated(h, secs) ==
  /\ proc = "running"
  /\ last' = Ran("start", h, NoMsg)
  /\ ~started[h]
  /\ ~stopped[h]
  /\ started' = [started EXCEPT ![h] = TRUE]
  /\ ScheduleDeath(h, secs, corruption[h])
  /\ written' = <<>>
  /\ UNCHANGED <<config, proc, sensors, old_sensors_list, timeout, pollTimers, zeroDelay, retry,
                 buffer, stopped, corrupted, dead>>

Start(h, secs) ==
  /\ proc = "running"
  /\ last' = Ran("start", h, NoMsg)
  /\ ~started[h]
  /\ ~stopped[h]
  /\ started' = [started EXCEPT ![h] = TRUE]
  /\ IF config.failures /\ config.timeToLive > 0
       THEN ScheduleDeath(h, secs, corruption[h])
       ELSE UNCHANGED <<corruption, deathLeaked, death>>
  /\ written' = <<>>
  /\ UNCHANGED <<config, proc, sensors, old_sensors_list, timeout, pollTimers, zeroDelay, retry,
                 buffer, stopped, corrupted, dead>>

(* Number((Math.random() * (sensors.length - 1)).toFixed(0)), as a 1-based index *)
CorruptionIndexes == IF Len(sensors) = 0 THEN {} ELSE 1..Len(sensors)

(* The corruption callback of _scheduleDeath.  On an empty registry
   sensors[sensorDead] is undefined and the assignment throws: an uncaught
   TypeError in a timer callback ends the process. *)
Corruption(h, idx, secs) ==
  /\ proc = "running"
  /\ last' = Ran("corruption", h, NoMsg)
  /\ 0 \in corruption[h]
  /\ written' = <<>>
  /\ IF Len(sensors) = 0
       THEN /\ proc' = "crashed"
            /\ UNCHANGED <<sensors, corruption, deathLeaked, death, corrupted>>
       ELSE /\ idx \in CorruptionIndexes
            /\ sensors' = [sensors EXCEPT ![idx].state = ERROR]
            /\ ScheduleDeath(h, secs, corruption[h] \ {0})
            /\ corrupted' = [corrupted EXCEPT ![h] = TRUE]
            /\ UNCHANGED proc
  /\ UNCHANGED <<config, old_sensors_list, timeout, pollTimers, zeroDelay, retry, buffer, started,
                 stopped, dead>>

(* stop(): clearTimeout of what #timeout and #death refer to; neither field is reset *)
StopEffect(h) ==
  /\ pollTimers' = [pollTimers EXCEPT ![h] = ClearedPoll(h)]
  /\ timeout' = [timeout EXCEPT ![h] = IF @ = "live" THEN "stale" ELSE @]
  /\ zeroDelay' = [zeroDelay EXCEPT ![h] = FALSE]
  /\ death' = [death EXCEPT ![h] = NoTimer]
  /\ stopped' = [stopped EXCEPT ![h] = TRUE]

(* stop(), called when the connection closes *)
Stop(h) ==
  /\ proc = "running"
  /\ last' = Ran("stop", h, NoMsg)
  /\ ~stopped[h]
  /\ StopEffect(h)
  /\ written' = <<>>
  /\ UNCHANGED <<config, proc, sensors, old_sensors_list, deathLeaked, corruption, retry,
                 buffer, started, corrupted, dead>>

DeathTimers(h) == deathLeaked[h] \cup (IF death[h] = NoTimer THEN {} ELSE {death[h]})

(* The death callback as it would be without process.exit() *)
DeathNoExit(h) ==
  /\ proc = "running"
  /\ last' = Ran("death", h, NoMsg)
  /\ 0 \in DeathTimers(h)
  /\ StopEffect(h)
  /\ deathLeaked' = [deathLeaked EXCEPT ![h] = @ \ {0}]
  /\ dead' = h
  /\ written' = <<>>
  /\ UNCHANGED <<config, proc, sensors, old_sensors_list, corruption, retry, buffer, started,
                 corrupted>>

(* The death callback of _scheduleDeath: ws.close(), stop(), emit, process.exit() *)
Death(h) ==
  /\ proc = "running"
  /\ last' = Ran("death", h, NoMsg)
  /\ 0 \in DeathTimers(h)
  /\ StopEffect(h)
  /\ deathLeaked' = [deathLeaked EXCEPT ![h] = @ \ {0}]
  /\ proc' = "exited"
  /\ dead' = h
  /\ written' = <<>>
  /\ UNCHANGED <<config, sensors, old_sensors_list, corruption, retry, buffer, started, corrupted>>

(* Time passes by d units, at most up to the next corruption or death timer
   due, and not while a poll timer armed with delay 0 is pending. *)
FirstPollPending(h) == timeout[h] = "live" /\ zeroDelay[h]

Timed == UNION {corruption[h] \cup DeathTimers(h) : h \in Handlers}

NextDue == CHOOSE d \in Timed : \A e \in Timed : d <= e

Elapse(S, d) == {r - d : r \in S}

Tick(d) ==
  /\ proc = "running"
  /\ last' = Ran("tick", 0, NoMsg)
  /\ Timed # {}
  /\ d \in 1..NextDue
  /\ \A h \in Handlers : ~FirstPollPending(h)
  /\ corruption' = [h \in Handlers |-> Elapse(corruption[h], d)]
  /\ deathLeaked' = [h \in Handlers |-> Elapse(deathLeaked[h], d)]
  /\ death' = [h \in Handlers |-> IF death[h] = NoTimer THEN NoTimer ELSE death[h] - d]
  /\ written' = <<>>
  /\ UNCHANGED <<config, proc, sensors, old_sensors_list, timeout, pollTimers, zeroDelay, retry,
                 buffer, started, stopped, corrupted, dead>>

(* server.js, POST /change-state: sensors = sensors.map(...), a new array *)
Changed(item, action, name, temperature) ==
  IF item.type = "heatpump" /\ item.name = name
    THEN [type |-> item.type, name |-> item.name, state |-> action,
          temperature |-> IF action = ON THEN temperature ELSE item.temperature]
    ELSE item

ChangeState(action, name, temperature) ==
  /\ proc = "running"
  /\ last' = Ran("change-state", 0, NoMsg)
  /\ action \in {ON, OFF}
  /\ sensors' = [i \in 1..Len(sensors) |-> Changed(sensors[i], action, name, temperature)]
  /\ retry' = [h \in Handlers |-> DetachBag(retry[h])]
  /\ written' = <<>>
  /\ UNCHANGED <<config, proc, old_sensors_list, timeout, pollTimers, zeroDelay, death, deathLeaked,
                 corruption, buffer, started, stopped, corrupted, dead>>

(* server.js, POST /add-sensor with action ADD: sensors.push(...), in place *)
AddSensor(name, state, temperature) ==
  /\ proc = "running"
  /\ last' = Ran("add-sensor", 0, NoMsg)
  /\ Len(sensors) < MaxLen
  /\ sensors' = Append(sensors, [type |-> "heatpump", name |-> name, state |-> state,
                                 temperature |-> temperature])
  /\ written' = <<>>
  /\ UNCHANGED <<config, proc, old_sensors_list, timeout, pollTimers, zeroDelay, death, deathLeaked,
                 corruption, retry, buffer, started, stopped, corrupted, dead>>

(* server.js, POST /add-sensor with action REMOVE: sensors = sensors.filter(...) *)
RemoveSensor(name) ==
  /\ proc = "running"
  /\ last' = Ran("remove-sensor", 0, NoMsg)
  /\ sensors' = SelectSeq(sensors, LAMBDA item : item.name # name)
  /\ retry' = [h \in Handlers |-> DetachBag(retry[h])]
  /\ written' = <<>>
  /\ UNCHANGED <<config, proc, old_sensors_list, timeout, pollTimers, zeroDelay, death, deathLeaked,
                 corruption, buffer, started, stopped, corrupted, dead>>

----------------------------------------------------------------------------
(* `tickSnap` and `held` are history variables: no action reads them. *)
Unobserved == UNCHANGED <<tickSnap, held>>

ObserveTick(h) == tickSnap' = [tickSnap EXCEPT ![h] = <<sensors>>]

ObservePoll(h) == ObserveTick(h) /\ UNCHANGED held

(* The sensors_list a retry timer holds: recorded when a poll's _send puts it
   off (one at a time), marked when a later poll writes its own, forgotten
   when the retry callback writes it. *)
IsList(out) == out # <<>> /\ out[1].msg.kind = "sensors_list"

HeldAfterPoll(h) ==
  /\ retry'[h] # retry[h] => held[h] = <<>>
  /\ held' = [held EXCEPT ![h] =
               IF retry'[h] # retry[h] THEN <<[at |-> sensors, passed |-> FALSE]>>
               ELSE IF IsList(written') /\ @ # <<>> THEN <<[@[1] EXCEPT !.passed = TRUE]>>
               ELSE @]

HeldAfterRetry(h) ==
  held' = [held EXCEPT ![h] = IF IsList(written') THEN <<>> ELSE @]

(* A step of a handler's connection, with the messages of M as inputs *)
Connection(h, M) ==
  \/ \E secs \in Secs : Start(h, secs) /\ Unobserved
  \/ \E m \in M, fail \in Draws(h, retry[h]) : OnMessage(h, m, fail) /\ Unobserved
  \/ \E fails \in DrawSeqs(h, Len(buffer[h]) + 1) : PollTick(h, fails) /\ ObservePoll(h)
  \/ Stop(h) /\ Unobserved

Retries(h) ==
  \E msg \in BagToSet(retry[h]) :
    \E fail \in Draws(h, retry[h] (-) SetToBag({msg})) : Retry(h, msg, fail) /\ Unobserved

BackChannel ==
  \/ \E action \in {ON, OFF}, name \in Names : ChangeState(action, name, 25) /\ Unobserved
  \/ \E name \in Names, state \in {ON, OFF} : AddSensor(name, state, 25) /\ Unobserved
  \/ \E name \in Names : RemoveSensor(name) /\ Unobserved

(* Fault simulation is on when failures is set and timeToLive is positive. *)
FaultSimulation == config.failures /\ config.timeToLive > 0

(* One connection without fault simulation: failures off, or on with no time
   to live. *)
InitPlain == Init /\ ~FaultSimulation

Next ==
  \/ Connection(1, Inbound)
  \/ Retries(1)
  \/ BackChannel

Spec == InitPlain /\ [][Next]_vars

(* One connection with fault simulation.  Its timers are armed when none is
   pending (start) or when one fires (corruption), so time passes from one due
   timer to the next. *)
InitFault == Init /\ FaultSimulation

ControlMsgs ==
  {m \in JsonMsgs : m.type # "publish" /\ m.target = "heatpump" /\ m.list = "null"}

FaultInbound == ControlMsgs \cup {m \in JsonMsgs : m.type = "subscribe" /\ m.target = "heatpump" /\ m.list = "array" /\ m.items = <<>>}

NextFault ==
  \/ Connection(1, FaultInbound)
  \/ Retries(1)
  \/ \E idx \in 1..MaxLen, secs \in Secs : Corruption(1, idx, secs) /\ Unobserved
  \/ Death(1) /\ Unobserved
  \/ Timed # {} /\ Tick(NextDue) /\ Unobserved
  \/ \E name \in Names : AddSensor(name, OFF, 25) /\ Unobserved

SpecFault == InitFault /\ [][NextFault]_vars

(* Two connections, failures off *)
InitNoFail == Init /\ ~config.failures /\ config.timeToLive = 0

NextTwo ==
  \/ \E h \in Handlers : Connection(h, ControlMsgs)
  \/ BackChannel

SpecTwo == InitNoFail /\ [][NextTwo]_vars

(* The event loop is fair to a pending poll timer: it runs once it is due. *)
FairFault == SpecFault /\ WF_vars(\E fails \in DrawSeqs(1, 1) : PollTick(1, fails) /\ ObservePoll(1))

ValidMsgs == {m \in JsonMsgs : m.type \in {"subscribe", "unsubscribe"} /\ m.target = "heatpump"}

(* One connection with failures on and no time to live, observed for the
   sensors_list messages that _send puts off. *)
InitSnap == Init /\ config.failures /\ config.timeToLive = 0

SnapInbound ==
  ControlMsgs \cup {m \in ValidMsgs : m.type = "subscribe" /\ m.list = "array" /\ m.items = <<>>}

NextSnap ==
  \/ \E secs \in Secs : Start(1, secs) /\ Unobserved
  \/ \E m \in SnapInbound, fail \in Draws(1, retry[1]) : OnMessage(1, m, fail) /\ Unobserved
  \/ \E fails \in DrawSeqs(1, Len(buffer[1]) + 1) :
        PollTick(1, fails) /\ ObserveTick(1) /\ HeldAfterPoll(1)
  \/ \E msg \in BagToSet(retry[1]) :
        \E fail \in Draws(1, retry[1] (-) SetToBag({msg})) :
          Retry(1, msg, fail) /\ UNCHANGED tickSnap /\ HeldAfterRetry(1)
  \/ Stop(1) /\ Unobserved
  \/ BackChannel

SpecSnap == InitSnap /\ [][NextSnap]_vars

(* The event loop runs a due retry timer, and its draw succeeds in the end. *)
FairSnap ==
  SpecSnap /\ WF_vars(\E msg \in BagToSet(retry[1]) :
                        Retry(1, msg, FALSE) /\ UNCHANGED tickSnap /\ HeldAfterRetry(1))

----------------------------------------------------------------------------
(* Properties *)

InvalidMsgs == JsonMsgs \ ValidMsgs

ErrorTexts == {ValidationError(m) : m \in Inbound} \ {None}

(* The step is the callback op of handler h. *)
Runs(op, h) == last'.op = op /\ last'.h = h

(* The step hands msg to _send exactly once: it is written to the socket, or a
   retry timer holds it. *)
Handed(h, msg) ==
  \/ written' = <<[h |-> h, msg |-> Wire(msg)]>> /\ retry' = retry
  \/ written' = <<>> /\ retry' = [retry EXCEPT ![h] = @ (+) SetToBag({msg})]

(* The step hands nothing to _send. *)
NothingHanded == written' = <<>> /\ retry' = retry

(* C1: a well-formed subscribe (list null) received by an Idle handler makes it
   Subscribed with one more poll timer, armed with delay 0, and that first
   poll eventually runs unless an unsubscribe, stop() or death comes first. *)
C1_SubscribeArmsFirstPoll ==
  /\ [][\A h \in Handlers :
          (Runs("message", h) /\ last'.m \in ControlMsgs /\ last'.m.type = "subscribe"
             /\ Idle(h))
            => (FirstPollPending(h)' /\ pollTimers'[h] = pollTimers[h] + 1)]_vars
  /\ \A h \in Handlers :
       (last.op = "message" /\ last.h = h /\ last.m \in ControlMsgs
          /\ last.m.type = "subscribe" /\ FirstPollPending(h))
         ~> (~FirstPollPending(h) \/ stopped[h] \/ dead # 0)

(* C2: a handler that has not been stopped has at most one pending poll
   timer, and exactly one whenever it is Subscribed. *)
C2_OnePollTimer ==
  \A h \in Handlers :
    (proc = "running" /\ ~stopped[h])
      => /\ pollTimers[h] <= 1
         /\ Subscribed(h) <=> pollTimers[h] = 1

(* a subscribe was received while Subscribed, after a poll *)
C2_Witness ==
  /\ last.op = "message"
  /\ last.m = Json("subscribe", "heatpump", [list |-> "null", items |-> <<>>])
  /\ Subscribed(1)
  /\ pollTimers[1] = 1
  /\ ~zeroDelay[1]

(* C3: a message with a wrong type or a wrong target is answered with an
   error and changes neither the subscription, the poll timer, the last
   snapshot nor the registry, whatever list it carries. *)
C3_InvalidMessageRejected ==
  [][\A h \in Handlers :
       (Runs("message", h) /\ last'.m \in InvalidMsgs)
         => /\ UNCHANGED <<timeout, pollTimers, zeroDelay, old_sensors_list, sensors>>
            /\ \E text \in ErrorTexts : Handed(h, ErrorMsg(text))]_vars

C3_Witness ==
  /\ last = Ran("message", 1, Json("subscribe", "thermostat",
                                   [list |-> "array", items |-> <<>>]))
  /\ written = <<[h |-> 1, msg |-> ErrorMsg("Invalid subscription target")]>>
  /\ Subscribed(1)
  /\ sensors # <<>>

(* C4: at a poll callback of a handler that has polled before, no update is
   produced if the registry equals what it was at that handler's previous
   poll, and otherwise exactly one sensors_list is produced and the registry
   becomes the last snapshot. *)
C4_ExactChangeDetection ==
  [][\A h \in Handlers :
       (Runs("poll", h) /\ tickSnap[h] # <<>>)
         => IF tickSnap[h][1] = sensors
              THEN NothingHanded /\ UNCHANGED old_sensors_list
              ELSE Handed(h, ListMsgLive) /\ old_sensors_list' = sensors]_vars

(* C5: an unsubscribe received while Subscribed cancels the poll timer, makes
   the handler Idle and hands exactly one ack to _send; while the handler is
   Idle it has no pending poll timer, and only a subscribe arms one. *)
C5_UnsubscribeStopsPolling ==
  /\ [][\A h \in Handlers :
          (Runs("message", h) /\ last'.m \in ValidMsgs /\ last'.m.type = "unsubscribe"
             /\ last'.m.list # "absent" /\ Subscribed(h))
            => (Idle(h)' /\ pollTimers'[h] = 0 /\ Handed(h, Ack))]_vars
  /\ [](\A h \in Handlers : Idle(h) => pollTimers[h] = 0)
  /\ [][\A h \in Handlers : Runs("poll", h) => Subscribed(h)]_vars
  /\ [][\A h \in Handlers :
          (Idle(h) /\ pollTimers'[h] > pollTimers[h])
            => (Runs("message", h) /\ last'.m \in ValidMsgs
                  /\ last'.m.type = "subscribe")]_vars

C5_Witness ==
  /\ last.op = "message"
  /\ last.m.kind = "json"
  /\ last.m.type = "unsubscribe"
  /\ timeout[1] = "zero"
  /\ pollTimers[1] = 0
  /\ written = <<[h |-> 1, msg |-> Ack]>>

(* C6: after stop() no poll, corruption or death callback of the handler runs. *)
C6_StopCancelsEverything ==
  [][\A h \in Handlers :
       stopped[h] => ~(Runs("poll", h) \/ Runs("corruption", h) \/ Runs("death", h))]_vars

(* C7: a valid message without a list field is handled like one whose list is
   null: no error, the registry unchanged, the transition performed. *)
C7_AbsentListLikeNull ==
  [][\A h \in Handlers :
       (Runs("message", h) /\ last'.m \in ValidMsgs /\ last'.m.list = "absent")
         => /\ sensors' = sensors
            /\ ~ \E text \in ErrorTexts : Handed(h, ErrorMsg(text))
            /\ (last'.m.type = "subscribe" /\ Idle(h)) => Subscribed(h)'
            /\ (last'.m.type = "unsubscribe" /\ Subscribed(h)) => Idle(h)']_vars

(* C8: with failures off no retry, corruption or death timer ever exists, and
   a callback that produces an error, an ack or a sensors_list writes it. *)
C8_NoFailuresImmediate ==
  /\ [](~config.failures
          => \A h \in Handlers :
               retry[h] = EmptyBag /\ corruption[h] = {} /\ DeathTimers(h) = {})
  /\ [][~config.failures
          => \A h \in Handlers :
               /\ (Runs("message", h) /\ ValidationError(last'.m) # None)
                    => written' = <<[h |-> h, msg |-> ErrorMsg(ValidationError(last'.m))]>>
               /\ (Runs("message", h) /\ ValidationError(last'.m) = None
                     /\ last'.m.type = "unsubscribe" /\ Subscribed(h))
                    => written' = <<[h |-> h, msg |-> Ack]>>
               /\ (Runs("poll", h) /\ old_sensors_list # sensors)
                    => written' = <<[h |-> h, msg |-> Wire(ListMsgLive)]>>]_vars

C8_Witness ==
  /\ ~config.failures
  /\ config.timeToLive > 0
  /\ started[1]
  /\ last = Ran("poll", 1, NoMsg)
  /\ written = <<[h |-> 1, msg |-> [kind |-> "sensors_list", list |-> Stringify(sensors)]]>>

(* C9: with fault simulation on, a death callback of a handler that was not
   stopped runs only after a corruption callback of that handler has set a
   state to ERROR. *)
C9_CorruptionBeforeDeath ==
  [][\A h \in Handlers : (Runs("death", h) /\ ~stopped[h]) => corrupted[h]]_vars

C9_Witness == last = Ran("death", 1, NoMsg) /\ dead = 1 /\ corrupted[1] /\ proc = "exited"

(* C10: a valid message with a list leaves exactly that list as the registry,
   whatever the subscription status, and a poll callback compares the last
   snapshot with the registry as it then is. *)
C10_ListReplacesRegistry ==
  /\ [][\A h \in Handlers :
          (Runs("message", h) /\ last'.m \in ValidMsgs /\ last'.m.list = "array")
            => sensors' = last'.m.items]_vars
  /\ [][\A h \in Handlers :
          Runs("poll", h)
            => /\ old_sensors_list' = sensors
               /\ IF old_sensors_list = sensors
                    THEN NothingHanded
                    ELSE Handed(h, ListMsgLive)]_vars

C10_Witness ==
  /\ last = Ran("poll", 1, NoMsg)
  /\ Len(sensors) = 2
  /\ sensors[1].state = ON
  /\ sensors[2].state = ERROR
  /\ written = <<[h |-> 1, msg |-> [kind |-> "sensors_list", list |-> Stringify(sensors)]]>>

(* C11: a subscribe (list null) received while Subscribed and an unsubscribe
   (list null) received while Idle hand nothing to _send and change neither
   the subscription, the poll timer, the last snapshot nor the registry. *)
C11_DuplicateControlIsNoOp ==
  [][\A h \in Handlers :
       (Runs("message", h) /\ last'.m \in ControlMsgs
          /\ \/ last'.m.type = "subscribe" /\ Subscribed(h)
             \/ last'.m.type = "unsubscribe" /\ Idle(h))
         => /\ NothingHanded
            /\ UNCHANGED <<timeout, pollTimers, zeroDelay, old_sensors_list, sensors>>]_vars

(* an unsubscribe was received by a handler that has never subscribed *)
C11_Witness ==
  /\ last = Ran("message", 1, Json("unsubscribe", "heatpump", [list |-> "null", items |-> <<>>]))
  /\ timeout[1] = "undefined"
  /\ pollTimers[1] = 0
  /\ written = <<>>
  /\ retry[1] = EmptyBag

(* C12: each handler compares with the registry of its own previous poll,
   whatever the other handlers have polled meanwhile, and the first poll of a
   handler produces a sensors_list for a non-empty registry. *)
C12_SnapshotPerHandler ==
  /\ [](\A h \in Handlers : tickSnap[h] # <<>> => old_sensors_list = tickSnap[h][1])
  /\ [][\A h \in Handlers :
          (Runs("poll", h) /\ tickSnap[h] = <<>> /\ sensors # <<>>)
            => Handed(h, ListMsgLive)]_vars

(* C13: the list of a sensors_list written to the socket is the registry as it
   was at the poll callback that produced the message, whether _send wrote it
   at once or a retry callback writes it later. *)
C13_ListIsSnapshotAtPoll ==
  /\ [][\A h \in Handlers :
          (Runs("poll", h) /\ IsList(written'))
            => written'[1].msg.list = Stringify(sensors)]_vars
  /\ [][\A h \in Handlers :
          (Runs("retry", h) /\ IsList(written') /\ held[h] # <<>>)
            => written'[1].msg.list = Stringify(held[h][1].at)]_vars

(* C14: a sensors_list that _send has put off is not written after the
   sensors_list of a later poll of the same handler. *)
C14_ListsWrittenInOrder ==
  [][\A h \in Handlers :
       (Runs("retry", h) /\ IsList(written') /\ held[h] # <<>>)
         => ~held[h][1].passed]_vars

(* C15: with fault simulation a handler has at most one pending corruption
   timer and at most one pending death timer, and a corruption callback
   leaves the pending death timers as they are. *)
C15_OneTimerOfEachKind ==
  /\ [](\A h \in Handlers :
          Cardinality(corruption[h]) <= 1 /\ Cardinality(DeathTimers(h)) <= 1)
  /\ [][\A h \in Handlers :
          (Runs("corruption", h) /\ proc' = "running") => DeathTimers(h)' = DeathTimers(h)]_vars

(* C16: a corruption callback sets the state of exactly one record of the
   registry to ERROR and changes nothing else of it, whatever the registry
   holds, the empty registry included. *)
C16_CorruptionIndexValid ==
  [][\A h \in Handlers :
       Runs("corruption", h)
         => /\ proc' = "running"
            /\ \E idx \in 1..Len(sensors) : sensors' = [sensors EXCEPT ![idx].state = ERROR]]_vars

(* C17: without fault simulation (failures off, or no time to live) a handler
   never has a corruption or a death timer, no corruption callback sets a
   state to ERROR and no death callback ends the process. *)
C17_FaultSimulationGated ==
  [](~FaultSimulation
       => /\ proc = "running"
          /\ dead = 0
          /\ \A h \in Handlers :
               corruption[h] = {} /\ DeathTimers(h) = {} /\ ~corrupted[h])

(* failures on, no time to live: started, subscribed, a send put off *)
C17_Witness ==
  /\ config.failures
  /\ config.timeToLive = 0
  /\ started[1]
  /\ Subscribed(1)
  /\ retry[1] # EmptyBag

(* C18: the death callback stops the handler (poll timer and #death cleared)
   and ends the process, and no callback runs once a handler has died. *)
C18_DeathIsTerminal ==
  /\ [][\A h \in Handlers :
          Runs("death", h)
            => /\ proc' = "exited"
               /\ dead' = h
               /\ stopped'[h]
               /\ pollTimers'[h] = 0
               /\ death'[h] = NoTimer]_vars
  /\ [][dead = 0 /\ proc = "running"]_vars

(* the handler died while subscribed, with a send put off *)
C18_Witness ==
  /\ last = Ran("death", 1, NoMsg)
  /\ proc = "exited"
  /\ timeout[1] = "stale"
  /\ retry[1] # EmptyBag

(* What the step writes to the socket of handler h *)
WrittenBy(h) == Cardinality({i \in 1..Len(written') : written'[i].h = h})

(* C19: a message handed to _send is written once or held by one retry
   timer, never both and never neither: a retry callback takes one pending
   message and either writes it or holds it again, any other step keeps the
   pending messages and adds at most one message, written or held; and a
   pending message is written in the end if the draw comes to succeed. *)
C19_DeferredSendConserved ==
  /\ [][\A h \in Handlers :
          IF Runs("retry", h)
            THEN /\ BagCardinality(retry'[h]) + WrittenBy(h) = BagCardinality(retry[h])
                 /\ \E msg \in BagToSet(retry[h]) :
                      \/ written' = <<[h |-> h, msg |-> Wire(msg)]>>
                           /\ retry'[h] = retry[h] (-) SetToBag({msg})
                      \/ written' = <<>> /\ retry'[h] = retry[h]
            ELSE /\ BagCardinality(retry'[h]) >= BagCardinality(retry[h])
                 /\ BagCardinality(retry'[h]) + WrittenBy(h) <= BagCardinality(retry[h]) + 1
                 /\ (last'.op \notin {"message", "poll"}) => WrittenBy(h) = 0]_vars
  /\ \A h \in Handlers :
       (retry[h] # EmptyBag)
         ~> ((last.op = "retry" /\ last.h = h /\ written # <<>>) \/ stopped[h])

(* a retry callback has written an ack that _send had put off *)
C19_Witness ==
  /\ last = Ran("retry", 1, NoMsg)
  /\ written = <<[h |-> 1, msg |-> Ack]>>
  /\ retry[1] = EmptyBag
  /\ ~stopped[1]

(* C20: once stop() has run, nothing is written to the socket of the handler. *)
C20_NoWriteAfterStop ==
  [][\A h \in Handlers : stopped[h] => WrittenBy(h) = 0]_vars

====
